---- MODULE Spec2Model ----
(***************************************************************************)
(* Model of ITCompiler.py: the persisted SymbolTable and the               *)
(* LexicalAnalyzer that scans a source text line by line.                  *)
(*                                                                         *)
(* A Python str is a sequence of units.  A unit is one character, written  *)
(* as a one-character string; the fixed words the program writes itself    *)
(* (the six token type names and the header lines) are kept as one unit    *)
(* each, since they hold no tab, no newline and no outer blank, so that    *)
(* strip() and split("\t") never cut inside them.                          *)
(***************************************************************************)
EXTENDS Integers, Sequences, FiniteSets, TLC

VARIABLES
    file,       \* tabla_simbolos.dat: NoFile, or its content as a sequence of units
    symbols,    \* LexicalAnalyzer.symbol_table.symbols
    errors,     \* LexicalAnalyzer.errors
    lines,      \* analyze: code.split("\n")
    line_num,   \* analyze: the 1-based number of the line being scanned
    i,          \* tokenize_line: the cursor, 0-based
    pc,         \* "idle" between calls; "split", "scan", "return" inside analyze; "crashed" after an uncaught exception
    first       \* observer: text and outcome of the first completed analyze of a text of RefTexts

vars == <<file, symbols, errors, lines, line_num, i, pc, first>>

----------------------------------------------------------------------------
(* Characters *)

Letters ==
    {"a","b","c","d","e","f","g","h","i","j","k","l","m",
     "n","o","p","q","r","s","t","u","v","w","x","y","z",
     "A","B","C","D","E","F","G","H","I","J","K","L","M",
     "N","O","P","Q","R","S","T","U","V","W","X","Y","Z"}

Digits == {"0","1","2","3","4","5","6","7","8","9"}

Whitespace == {" ", "\t", "\n", "\r", "\f"}

isspace(c) == c \in Whitespace

isalpha(c) == c \in Letters

isdigit(c) == c \in Digits

isalnum(c) == isalpha(c) \/ isdigit(c)

KEYWORDS ==
    { <<"i","f">>, <<"e","l","s","e">>, <<"w","h","i","l","e">>, <<"f","o","r">>,
      <<"f","u","n","c","t","i","o","n">>, <<"r","e","t","u","r","n">>,
      <<"i","n","t">>, <<"f","l","o","a","t">>, <<"s","t","r","i","n","g">>,
      <<"b","o","o","l">>, <<"t","r","u","e">>, <<"f","a","l","s","e">>,
      <<"p","r","i","n","t">>, <<"i","n","p","u","t">>, <<"a","n","d">>,
      <<"o","r">>, <<"n","o","t">> }

operators ==
    {"+", "-", "*", "/", "=", "!", "<", ">", "&", "|", "(", ")", "{", "}", "[", "]", ";", ","}

\* the list of line 201 with '<=' forgotten
TwoCharOps_WithoutLessEqual ==
    { <<"=","=">>, <<"!","=">>, <<">","=">>, <<"&","&">>, <<"|","|">> }

TwoCharOps ==
    { <<"=","=">>, <<"!","=">>, <<"<","=">>, <<">","=">>, <<"&","&">>, <<"|","|">> }

PALABRA_RESERVADA == <<"PALABRA_RESERVADA">>
IDENTIFICADOR == <<"IDENTIFICADOR">>
NUMERO_ENTERO == <<"NUMERO_ENTERO">>
NUMERO_DECIMAL == <<"NUMERO_DECIMAL">>
STRING_ == <<"STRING">>
OPERADOR == <<"OPERADOR">>

----------------------------------------------------------------------------
(* Strings *)

\* str.split(sep) for a one-unit separator: the pieces between the separators,
\* always at least one piece.
RECURSIVE SplitOn(_, _, _)
SplitOn(s, sep, cur) ==
    IF s = <<>> THEN <<cur>>
    ELSE IF Head(s) = sep THEN <<cur>> \o SplitOn(Tail(s), sep, <<>>)
    ELSE SplitOn(Tail(s), sep, Append(cur, Head(s)))

Split(s, sep) == SplitOn(s, sep, <<>>)

RECURSIVE LStrip(_)
LStrip(s) == IF s # <<>> /\ isspace(Head(s)) THEN LStrip(Tail(s)) ELSE s

RECURSIVE RStrip(_)
RStrip(s) ==
    IF s # <<>> /\ isspace(s[Len(s)]) THEN RStrip(SubSeq(s, 1, Len(s) - 1)) ELSE s

\* str.strip()
Strip(s) == RStrip(LStrip(s))

DigitOf(d) == CHOOSE c \in Digits : c = ToString(d)

\* str(n) for a natural number (an f-string field)
RECURSIVE Str(_)
Str(n) == IF n < 10 THEN <<DigitOf(n)>> ELSE Append(Str(n \div 10), DigitOf(n % 10))

ValueOf(c) == CHOOSE d \in 0..9 : ToString(d) = c

RECURSIVE DigitsValue(_)
DigitsValue(s) ==
    IF s = <<>> THEN 0 ELSE DigitsValue(SubSeq(s, 1, Len(s) - 1)) * 10 + ValueOf(s[Len(s)])

IsDigits(s) == s # <<>> /\ \A k \in 1..Len(s) : isdigit(s[k])

\* int(s): blanks around the number and one sign are accepted; anything else
\* raises ValueError.
IntOk(s) ==
    LET t == Strip(s)
    IN  IF t # <<>> /\ Head(t) \in {"+", "-"} THEN IsDigits(Tail(t)) ELSE IsDigits(t)

ParseInt(s) ==
    LET t == Strip(s)
    IN  IF Head(t) = "-" THEN 0 - DigitsValue(Tail(t))
        ELSE IF Head(t) = "+" THEN DigitsValue(Tail(t))
        ELSE DigitsValue(t)

----------------------------------------------------------------------------
(* SymbolTable: the durable file *)

\* os.path.exists(filename) is false: a marker that is no content of a file
NoFile == <<"no such file">>

NL == "\n"
TAB == "\t"

\* _create_file: the eleven lines written when the file does not exist
CreateHeader ==
    << "=== TABLA DE SIMBOLOS ===", NL,
       "Formato: Tipo | Valor | Linea", NL,
       "---------------------------", NL,
       "TIPOS POSIBLES:", NL,
       "- PALABRA_RESERVADA", NL,
       "- IDENTIFICADOR", NL,
       "- NUMERO_ENTERO", NL,
       "- NUMERO_DECIMAL", NL,
       "- STRING", NL,
       "- OPERADOR", NL,
       "---------------------------", NL >>

create_file(f) == IF f = NoFile THEN CreateHeader ELSE f

\* save: the three lines written before the rows
SaveHeader ==
    << "=== TABLA DE SIMBOLOS ===", NL,
       "Formato: Tipo | Valor | Linea", NL,
       "---------------------------", NL >>

\* f"{symbol['type']}\t{symbol['value']}\t{symbol['line']}\n"
Row(symbol) ==
    symbol.type \o <<TAB>> \o symbol.value \o <<TAB>> \o Str(symbol.line) \o <<NL>>

RECURSIVE Rows(_)
Rows(syms) == IF syms = <<>> THEN <<>> ELSE Row(Head(syms)) \o Rows(Tail(syms))

\* save: the file is opened with 'w', so the old content is gone
save(syms) == SaveHeader \o Rows(syms)

\* f.readlines(): the lines with their terminators; a last line without one is kept
readlines(f) ==
    LET pieces == Split(f, NL)
        n == Len(pieces)
    IN  [k \in 1..(IF pieces[n] = <<>> THEN n - 1 ELSE n) |->
            IF k < n THEN Append(pieces[k], NL) ELSE pieces[k]]

\* lines[8:]
SkipLines == 8

Slice(s, from) == IF from >= Len(s) THEN <<>> ELSE SubSeq(s, from + 1, Len(s))

\* The loop of load over the lines left; int() raising ends it with ok = FALSE.
RECURSIVE LoadLines(_, _)
LoadLines(ls, syms) ==
    IF ls = <<>> THEN [symbols |-> syms, ok |-> TRUE]
    ELSE LET parts == Split(Strip(Head(ls)), TAB)
         IN  IF Len(parts) = 3
             THEN IF IntOk(parts[3])
                  THEN LoadLines(Tail(ls),
                           Append(syms, [type |-> parts[1], value |-> parts[2],
                                         line |-> ParseInt(parts[3])]))
                  ELSE [symbols |-> syms, ok |-> FALSE]
             ELSE LoadLines(Tail(ls), syms)

load(f, syms) ==
    IF f # NoFile THEN LoadLines(Slice(readlines(f), SkipLines), syms)
    ELSE [symbols |-> syms, ok |-> TRUE]

\* SymbolTable.__init__
NewTable(f) == load(create_file(f), <<>>)

\* add_symbol with save() called before the append
add_symbol_SavesFirst(syms, token_type, token_value, line_number) ==
    LET grown == Append(syms, [type |-> token_type, value |-> token_value,
                               line |-> line_number])
    IN  [symbols |-> grown, file |-> save(syms)]

\* add_symbol: append, then save
add_symbol(syms, token_type, token_value, line_number) ==
    LET grown == Append(syms, [type |-> token_type, value |-> token_value,
                               line |-> line_number])
    IN  [symbols |-> grown, file |-> save(grown)]

\* clear with the assignment of the empty list left out
clear_KeepsEntries(syms) == [symbols |-> syms, file |-> save(syms)]

\* clear with save() called before the list is emptied
clear_SavesFirst(syms) == [symbols |-> <<>>, file |-> save(syms)]

\* clear: empty the list, then save
clear(syms) ==
    LET emptied == <<>>
    IN  [symbols |-> emptied, file |-> save(emptied)]

----------------------------------------------------------------------------
(* Bounds and inputs *)

\* the longest text of which every variant over Alphabet is analyzed
MaxLen == 3

\* direct add_symbol calls are made while the table is shorter than this
MaxTable == 2

Alphabet == {"i", "f", "3", ".", "\"", "/", "=", "<", "@", " ", NL}

SeqsUpTo(S, n) == UNION { [1..k -> S] : k \in 0..n }

\* longer texts, among them the examples of the documentation
Samples ==
    { <<"3",".","1",".","4">>,
      <<"x"," ","="," ","3",".","5",";">>,
      <<"a"," ","<","="," ","b"," ","&","&"," ","c">>,
      <<"\"","u","n","t","e","r","m","i","n","a","t","e","d">>,
      <<"\"","a","b",NL,"x"," ","\"","c","\""," ","y",NL,"z">>,
      <<"i","f"," ","(","t","r","u","e",")"," ","{"," ","p","r","i","n","t","(",
        "\"","h","i","\"",")",";"," ","}">>,
      <<"i","f","f","y"," ","i","n","t","1"," ","_","i","f"," ","i","f">>,
      <<"\"","a","\\","\"","b","\""," ","c">>,
      <<"\"","/","/","\"","x"," ","/","/"," ","y","\"">>,
      <<"1","2",".","|","|","!","=",">","=","!",">","|","&">>,
      <<"\"","a",TAB,"b","\"",TAB,"@","#">>,
      <<"a","@","b",NL,"$","c">>,
      <<"I","f"," ","i","F"," ","i","f","_"," ","f","o","r","3">>,
      <<"a"," ","/","/"," ","b","@","\"",NL,"c","/","/">>,
      <<"7"," ","1","2","."," ","0",".","5","x","3",".","a">>,
      <<"i","f"," ","x"," ","i","f"," ","x">> }

Texts == SeqsUpTo(Alphabet, MaxLen) \cup Samples

\* the texts whose first outcome the observer keeps
RefTexts ==
    { <<"3",".","1",".","4">>,
      <<"\"","a","b",NL,"x"," ","\"","c","\""," ","y",NL,"z">>,
      <<"i","f">>,
      <<"@">> }

\* what direct callers of add_symbol pass
DirectSymbols ==
    { [type |-> IDENTIFICADOR, value |-> <<"x">>, line |-> 1],
      [type |-> STRING_, value |-> <<"\"", "a", " ", "b", "\"">>, line |-> 12] }

\* a file left by an earlier session or edited by hand
PriorFiles ==
    { NoFile,
      CreateHeader,
      save(<<>>),
      <<"h1", NL, "h2", NL, "h3", NL, "h4", NL, "h5", NL, "h6", NL, "h7", NL, "h8", NL,
        "IDENTIFICADOR", TAB, "x", TAB, "1", NL,
        "only", TAB, "two", NL,
        NL,
        "OPERADOR", TAB, "=", TAB, " ", "2">>,
      CreateHeader \o <<"IDENTIFICADOR", TAB, "x", TAB, "o", "n", "e", NL>> }

----------------------------------------------------------------------------
(* LexicalAnalyzer *)

\* the observer before it has seen a text of RefTexts
None == [seen |-> FALSE, lines |-> <<>>, symbols |-> <<>>, errors |-> <<>>]

Line == lines[line_num]

\* line[k] for the 0-based k of the code
At(line, k) == line[k + 1]

\* line[a:b]
Sub(line, a, b) == SubSeq(line, a + 1, b)

\* the identifier loop with isalpha() where the code has isalnum()
RECURSIVE IdentEnd_LettersOnly(_, _)
IdentEnd_LettersOnly(line, k) ==
    IF k < Len(line) /\ (isalpha(At(line, k)) \/ At(line, k) = "_")
    THEN IdentEnd_LettersOnly(line, k + 1) ELSE k

\* while i < n and (line[i].isalnum() or line[i] == '_'): i += 1
RECURSIVE IdentEnd(_, _)
IdentEnd(line, k) ==
    IF k < Len(line) /\ (isalnum(At(line, k)) \/ At(line, k) = "_")
    THEN IdentEnd(line, k + 1) ELSE k

\* the number loop over digits only
RECURSIVE NumberScan_DigitsOnly(_, _, _)
NumberScan_DigitsOnly(line, k, has_decimal) ==
    IF k < Len(line) /\ isdigit(At(line, k))
    THEN NumberScan_DigitsOnly(line, k + 1, has_decimal)
    ELSE [i |-> k, has_decimal |-> has_decimal, error |-> FALSE]

\* the number loop: where it stops, whether a '.' was consumed, whether it
\* met a second '.' (the error, followed by break)
RECURSIVE NumberScan(_, _, _)
NumberScan(line, k, has_decimal) ==
    IF k < Len(line) /\ (isdigit(At(line, k)) \/ At(line, k) = ".")
    THEN IF At(line, k) = "."
         THEN IF has_decimal
              THEN [i |-> k, has_decimal |-> has_decimal, error |-> TRUE]
              ELSE NumberScan(line, k + 1, TRUE)
         ELSE NumberScan(line, k + 1, has_decimal)
    ELSE [i |-> k, has_decimal |-> has_decimal, error |-> FALSE]

\* the string loop with a backslash taking the next character with it
RECURSIVE StringEnd_Escapes(_, _)
StringEnd_Escapes(line, k) ==
    IF k < Len(line) /\ At(line, k) # "\""
    THEN IF At(line, k) = "\\" /\ k + 1 < Len(line)
         THEN StringEnd_Escapes(line, k + 2)
         ELSE StringEnd_Escapes(line, k + 1)
    ELSE k

\* the string loop ending at a '//' as well
RECURSIVE StringEnd_StopsAtComment(_, _)
StringEnd_StopsAtComment(line, k) ==
    IF /\ k < Len(line)
       /\ At(line, k) # "\""
       /\ ~(k + 1 < Len(line) /\ At(line, k) = "/" /\ At(line, k + 1) = "/")
    THEN StringEnd_StopsAtComment(line, k + 1) ELSE k

\* while i < n and line[i] != '"': i += 1
RECURSIVE StringEnd(_, _)
StringEnd(line, k) ==
    IF k < Len(line) /\ At(line, k) # "\"" THEN StringEnd(line, k + 1) ELSE k

\* the comment test with i + 2 < n
IsCommentAt_NeedsThirdCharacter(line, k) ==
    k + 2 < Len(line) /\ At(line, k) = "/" /\ At(line, k + 1) = "/"

IsCommentAt(line, k) == k + 1 < Len(line) /\ At(line, k) = "/" /\ At(line, k + 1) = "/"

\* the error messages
ErrMultiplePoints(n) == <<"Error lexico en linea", n, "Numero con multiples puntos decimales">>
ErrUnclosedString(n) == <<"Error lexico en linea", n, "String no cerrado">>
ErrUnrecognized(n, c) == <<"Error lexico en linea", n, "Caracter no reconocido", c>>

\* tokenize_line returns: the for loop of analyze takes the next line, or is
\* exhausted
LeaveLine ==
    /\ line_num' = line_num + 1
    /\ i' = 0
    /\ pc' = IF line_num < Len(lines) THEN "scan" ELSE "return"
    /\ UNCHANGED <<lines, first>>

\* stay in the while loop of tokenize_line with the cursor at k
Continue(k) ==
    /\ i' = k
    /\ UNCHANGED <<lines, line_num, pc, first>>

\* add_symbol called with the 0-based number of the line
Emit_ZeroBasedLine(token_type, token_value) ==
    LET t == add_symbol(symbols, token_type, token_value, line_num - 1)
    IN  symbols' = t.symbols /\ file' = t.file

Emit(token_type, token_value) ==
    LET t == add_symbol(symbols, token_type, token_value, line_num)
    IN  symbols' = t.symbols /\ file' = t.file

Scanning == pc = "scan" /\ i < Len(Line)

\* the text analyzed, as the observer keeps it
Observed == \E t \in RefTexts : Split(t, NL) = lines

\* LexicalAnalyzer.__init__ on the file it finds: SymbolTable() and errors = []
Init ==
    \E prior \in PriorFiles :
        LET t == NewTable(prior)
        IN  /\ file = create_file(prior)
            /\ symbols = t.symbols
            /\ errors = <<>>
            /\ pc = IF t.ok THEN "idle" ELSE "crashed"
            /\ lines = <<>>
            /\ line_num = 0
            /\ i = 0
            /\ first = None

\* the program is started again: a new LexicalAnalyzer on the same file
NewLexicalAnalyzer ==
    /\ pc = "idle"
    /\ LET t == NewTable(file)
       IN  /\ file' = create_file(file)
           /\ symbols' = t.symbols
           /\ pc' = IF t.ok THEN "idle" ELSE "crashed"
    /\ errors' = <<>>
    /\ UNCHANGED <<lines, line_num, i, first>>

\* symbol_table.add_symbol(...) called from outside analyze
AddSymbol ==
    /\ pc = "idle"
    /\ Len(symbols) < MaxTable
    /\ \E d \in DirectSymbols :
         LET t == add_symbol(symbols, d.type, d.value, d.line)
         IN  symbols' = t.symbols /\ file' = t.file
    /\ UNCHANGED <<errors, lines, line_num, i, pc, first>>

\* symbol_table.clear() called from outside analyze
Clear ==
    /\ pc = "idle"
    /\ LET t == clear(symbols)
       IN  symbols' = t.symbols /\ file' = t.file
    /\ UNCHANGED <<errors, lines, line_num, i, pc, first>>

\* analyze(code) is called: symbol_table.clear() and errors = [].  The argument
\* is read first by the next statement, where the model draws it.
Analyze ==
    /\ pc = "idle"
    /\ LET t == clear(symbols)
       IN  symbols' = t.symbols /\ file' = t.file
    /\ errors' = <<>>
    /\ pc' = "split"
    /\ UNCHANGED <<lines, line_num, i, first>>

\* lines = code.split("\n"), and the for loop takes line 1
SplitLines ==
    /\ pc = "split"
    /\ \E code \in Texts : lines' = Split(code, NL)
    /\ line_num' = 1
    /\ i' = 0
    /\ pc' = "scan"
    /\ UNCHANGED <<file, symbols, errors, first>>

\* while i < n is false: tokenize_line returns
EndOfLine ==
    /\ pc = "scan"
    /\ i >= Len(Line)
    /\ UNCHANGED <<file, symbols, errors>>
    /\ LeaveLine

\* if char.isspace()
SkipSpace ==
    /\ Scanning
    /\ isspace(At(Line, i))
    /\ Continue(i + 1)
    /\ UNCHANGED <<file, symbols, errors>>

\* if char.isalpha() or char == '_'
ScanIdentifier ==
    /\ Scanning
    /\ ~isspace(At(Line, i))
    /\ isalpha(At(Line, i)) \/ At(Line, i) = "_"
    /\ LET start == i
           end == IdentEnd(Line, i)
           identifier == Sub(Line, start, end)
       IN  /\ IF identifier \in KEYWORDS
              THEN Emit(PALABRA_RESERVADA, identifier)
              ELSE Emit(IDENTIFICADOR, identifier)
           /\ Continue(end)
    /\ UNCHANGED errors

\* if char.isdigit()
ScanNumber ==
    /\ Scanning
    /\ isdigit(At(Line, i))
    /\ LET start == i
           scan == NumberScan(Line, i, FALSE)
           number == Sub(Line, start, scan.i)
       IN  /\ errors' = IF scan.error
                        THEN Append(errors, ErrMultiplePoints(line_num))
                        ELSE errors
           /\ IF scan.has_decimal
              THEN Emit(NUMERO_DECIMAL, number)
              ELSE Emit(NUMERO_ENTERO, number)
           /\ Continue(scan.i)

\* the string branch without the break: the open string is added like a closed one,
\* as the number branch does after its error
ScanString_EmitsOpenString ==
    /\ Scanning
    /\ At(Line, i) = "\""
    /\ LET start == i
           end == StringEnd(Line, i + 1)
       IN  IF end >= Len(Line)
           THEN /\ errors' = Append(errors, ErrUnclosedString(line_num))
                /\ Emit(STRING_, Sub(Line, start, end))
                /\ Continue(end)
           ELSE /\ Emit(STRING_, Sub(Line, start, end + 1))
                /\ Continue(end + 1)
                /\ UNCHANGED errors

\* if char == '"'
ScanString ==
    /\ Scanning
    /\ At(Line, i) = "\""
    /\ LET start == i
           end == StringEnd(Line, i + 1)
       IN  IF end >= Len(Line)
           THEN /\ errors' = Append(errors, ErrUnclosedString(line_num))
                /\ UNCHANGED <<file, symbols>>
                /\ LeaveLine
           ELSE /\ Emit(STRING_, Sub(Line, start, end + 1))
                /\ Continue(end + 1)
                /\ UNCHANGED errors

\* if i + 1 < n and line[i] == '/' and line[i + 1] == '/': break
SkipComment ==
    /\ Scanning
    /\ IsCommentAt(Line, i)
    /\ UNCHANGED <<file, symbols, errors>>
    /\ LeaveLine

\* if char in operators
ScanOperator ==
    /\ Scanning
    /\ ~IsCommentAt(Line, i)
    /\ At(Line, i) \in operators
    /\ IF i + 1 < Len(Line) /\ <<At(Line, i), At(Line, i + 1)>> \in TwoCharOps
       THEN /\ Emit(OPERADOR, <<At(Line, i), At(Line, i + 1)>>)
            /\ Continue(i + 2)
       ELSE /\ Emit(OPERADOR, <<At(Line, i)>>)
            /\ Continue(i + 1)
    /\ UNCHANGED errors

\* the last branch ending the line like the string branch: break instead of i += 1
BadCharacter_Breaks ==
    /\ Scanning
    /\ LET char == At(Line, i)
       IN  /\ ~isspace(char)
           /\ ~(isalpha(char) \/ char = "_")
           /\ ~isdigit(char)
           /\ char # "\""
           /\ char \notin operators
           /\ errors' = Append(errors, ErrUnrecognized(line_num, char))
    /\ LeaveLine
    /\ UNCHANGED <<file, symbols>>

\* the last branch without its i += 1
BadCharacter_StaysPut ==
    /\ Scanning
    /\ LET char == At(Line, i)
       IN  /\ ~isspace(char)
           /\ ~(isalpha(char) \/ char = "_")
           /\ ~isdigit(char)
           /\ char # "\""
           /\ char \notin operators
           /\ errors' = Append(errors, ErrUnrecognized(line_num, char))
    /\ Continue(i)
    /\ UNCHANGED <<file, symbols>>

\* none of the above: the error, and i += 1
BadCharacter ==
    /\ Scanning
    /\ LET char == At(Line, i)
       IN  /\ ~isspace(char)
           /\ ~(isalpha(char) \/ char = "_")
           /\ ~isdigit(char)
           /\ char # "\""
           /\ char \notin operators
           /\ errors' = Append(errors, ErrUnrecognized(line_num, char))
    /\ Continue(i + 1)
    /\ UNCHANGED <<file, symbols>>

\* analyze returns: its locals are gone; the observer keeps the first outcome
\* of a text of RefTexts
Return ==
    /\ pc = "return"
    /\ pc' = "idle"
    /\ lines' = <<>>
    /\ line_num' = 0
    /\ i' = 0
    /\ first' = IF ~first.seen /\ Observed
                THEN [seen |-> TRUE, lines |-> lines, symbols |-> symbols, errors |-> errors]
                ELSE first
    /\ UNCHANGED <<file, symbols, errors>>

Next ==
    \/ NewLexicalAnalyzer
    \/ AddSymbol
    \/ Clear
    \/ Analyze
    \/ SplitLines
    \/ EndOfLine
    \/ SkipSpace
    \/ ScanIdentifier
    \/ ScanNumber
    \/ ScanString
    \/ SkipComment
    \/ ScanOperator
    \/ BadCharacter
    \/ Return

Spec == Init /\ [][Next]_vars

\* the statements of analyze: once called, it runs on without waiting for anything
AnalyzeStep ==
    \/ SplitLines
    \/ EndOfLine
    \/ SkipSpace
    \/ ScanIdentifier
    \/ ScanNumber
    \/ ScanString
    \/ SkipComment
    \/ ScanOperator
    \/ BadCharacter
    \/ Return

FairSpec == Spec /\ WF_vars(AnalyzeStep)

----------------------------------------------------------------------------
(* Properties *)

HasError(e) == \E k \in 1..Len(errors) : errors[k] = e

Entry(token_type, token_value, line_number) ==
    [type |-> token_type, value |-> token_value, line |-> line_number]

\* the cursor is on a double-quote that no double-quote follows on the line
AtOpenString ==
    /\ Scanning
    /\ At(Line, i) = "\""
    /\ \A k \in (i + 1)..(Len(Line) - 1) : At(Line, k) # "\""

NoTabOrNewline(syms) ==
    \A k \in 1..Len(syms) : \A j \in 1..Len(syms[k].value) :
        syms[k].value[j] \notin {TAB, NL}

\* C2: a non-empty table whose texts hold no tab or newline, saved and then
\* loaded by a new table on the same file, comes back entry for entry.
C2_SaveLoadRoundTrip ==
    [][(/\ NewLexicalAnalyzer
        /\ symbols # <<>>
        /\ file = SaveHeader \o Rows(symbols)
        /\ NoTabOrNewline(symbols))
          => symbols' = symbols]_vars

\* C3: the number step that records the multiple-decimal-points error adds
\* no entry.
C3_SecondPointRunNotEmitted ==
    [][(/\ Scanning
        /\ isdigit(At(Line, i))
        /\ errors' = Append(errors, ErrMultiplePoints(line_num)))
          => symbols' = symbols]_vars

\* one line, a digit first, digits and '.' only, exactly two '.'
TwoPointNumber(line) ==
    /\ line # <<>>
    /\ isdigit(line[1])
    /\ \A k \in 1..Len(line) : isdigit(line[k]) \/ line[k] = "."
    /\ Cardinality({k \in 1..Len(line) : line[k] = "."}) = 2

\* C4: after analyze of a text that is one number with two decimal points,
\* the error list is the multiple-decimal-points error of line 1 and nothing
\* else.
C4_OneErrorForTwoPointNumber ==
    (pc = "return" /\ Len(lines) = 1 /\ TwoPointNumber(lines[1]))
        => errors = <<ErrMultiplePoints(1)>>

\* C5: when analyze has scanned a text that was analyzed before, whatever
\* happened in between, the entries and the errors are those of the first
\* time.
C5_SameTextSameOutcome ==
    (pc = "return" /\ first.seen /\ first.lines = lines)
        => (symbols = first.symbols /\ errors = first.errors)

\* a text analyzed again, with entries and errors to compare
C5_AnalyzedAgain ==
    /\ pc = "return"
    /\ first.seen
    /\ first.lines = lines
    /\ symbols # <<>>
    /\ errors # <<>>

\* C6: at an operator character that does not start '//', if the next
\* character of the line completes ==, !=, <=, >=, && or ||, the step adds one
\* OPERADOR entry with the two characters and moves the cursor by two;
\* otherwise it adds one OPERADOR entry with the one character and moves the
\* cursor by one.
C6_TwoCharacterOperatorFirst ==
    [][(Scanning /\ At(Line, i) \in operators /\ ~IsCommentAt(Line, i)) =>
          LET c == At(Line, i)
              pair == i + 1 < Len(Line) /\
                      <<c, At(Line, i + 1)>> \in
                          { <<"=","=">>, <<"!","=">>, <<"<","=">>,
                            <<">","=">>, <<"&","&">>, <<"|","|">> }
          IN  /\ IF pair
                 THEN /\ symbols' = Append(symbols,
                              Entry(OPERADOR, <<c, At(Line, i + 1)>>, line_num))
                      /\ i' = i + 2
                 ELSE /\ symbols' = Append(symbols, Entry(OPERADOR, <<c>>, line_num))
                      /\ i' = i + 1
              /\ errors' = errors
              /\ line_num' = line_num
              /\ pc' = "scan"]_vars

\* a '<=' entry, and a one-character '<' or '=' entry
C6_BothOperatorLengths ==
    /\ \E k \in 1..Len(symbols) : symbols[k] = Entry(OPERADOR, <<"<", "=">>, symbols[k].line)
    /\ \E k \in 1..Len(symbols) :
          symbols[k].type = OPERADOR /\ symbols[k].value \in { <<"<">>, <<"=">> }

\* the character starts no token class
StartsNoToken(c) ==
    /\ c \notin Whitespace
    /\ c \notin Letters
    /\ c # "_"
    /\ c \notin Digits
    /\ c # "\""
    /\ c \notin operators

\* C7: at a character that starts no token class the step appends the
\* unrecognized-character error with the line and the character, adds no
\* entry, and stays in the scan of the same line one character further.
C7_UnrecognizedCharacterSkipped ==
    [][(Scanning /\ StartsNoToken(At(Line, i))) =>
          /\ errors' = Append(errors, ErrUnrecognized(line_num, At(Line, i)))
          /\ symbols' = symbols
          /\ file' = file
          /\ i' = i + 1
          /\ line_num' = line_num
          /\ lines' = lines
          /\ pc' = "scan"]_vars

\* after '@' on line 1, the 'b' that follows it on the line and the 'c' of
\* line 2 are recorded
C7_TokensAfterUnrecognized ==
    /\ pc = "return"
    /\ HasError(ErrUnrecognized(1, "@"))
    /\ \E k \in 1..Len(symbols) : symbols[k] = Entry(IDENTIFICADOR, <<"b">>, 1)
    /\ \E k \in 1..Len(symbols) : symbols[k] = Entry(IDENTIFICADOR, <<"c">>, 2)

\* C8: every add_symbol and every clear, called directly or by analyze,
\* leaves the file holding the three header lines followed by exactly the
\* rows of the entries in memory, in order; after clear that is the header
\* only.
C8_FileHoldsTheEntries ==
    [][(AddSymbol \/ Clear \/ Analyze \/ (pc = "scan" /\ symbols' # symbols)) =>
          /\ file' = SaveHeader \o Rows(symbols')
          /\ (Clear \/ Analyze) => (symbols' = <<>> /\ file' = SaveHeader)]_vars

\* a table that is shorter than the one an earlier analyze left, in step
\* with the file
C8_ShorterTableInStep ==
    /\ pc = "idle"
    /\ first.seen
    /\ Len(symbols) >= 2
    /\ Len(symbols) < Len(first.symbols)
    /\ file = SaveHeader \o Rows(symbols)

HasTab(line) == \E k \in 1..Len(line) : line[k] = TAB

\* the number of lines of the file before its first line with a tab
LinesBeforeFirstRow(f) ==
    LET ls == readlines(f)
    IN  CHOOSE n \in 0..Len(ls) :
            /\ \A k \in 1..n : ~HasTab(ls[k])
            /\ n < Len(ls) => HasTab(ls[n + 1])

\* C9: in the file as analyze writes it, the lines before the first data row
\* are as many as load skips.
C9_HeaderIsWhatLoadSkips ==
    (pc \in {"scan", "return"} /\ symbols # <<>>)
        => LinesBeforeFirstRow(file) = SkipLines

\* C10: after clear, called directly or by analyze, a new table on the file
\* loads without an exception and is empty.
C10_ClearThenLoadIsEmpty ==
    [][(Clear \/ Analyze) =>
          (NewTable(file').ok /\ NewTable(file').symbols = <<>>)]_vars

\* the table is empty after an analyze that had left a number entry in it
C10_ClearedAfterEntries ==
    /\ pc = "idle"
    /\ symbols = <<>>
    /\ file = SaveHeader
    /\ HasError(ErrMultiplePoints(1))

HasEntry(e) == \E k \in 1..Len(symbols) : symbols[k] = e

\* where the longest run of characters of class P that starts at from ends
RunEnd(line, from, P(_)) ==
    CHOOSE e \in from..Len(line) :
        /\ \A k \in from..(e - 1) : P(At(line, k))
        /\ e = Len(line) \/ ~P(At(line, e))

WordChar(c) == c \in Letters \/ c \in Digits \/ c = "_"

NumberChar(c) == c \in Digits \/ c = "."

\* C11: at a letter or underscore the step adds exactly one entry, whose text
\* is the longest run of letters, digits and underscores from the cursor:
\* PALABRA_RESERVADA if the run is a keyword, IDENTIFICADOR otherwise; the
\* cursor is then right after the run.
C11_WholeRunKeywordOrIdentifier ==
    [][(Scanning /\ (At(Line, i) \in Letters \/ At(Line, i) = "_")) =>
          LET e == RunEnd(Line, i, WordChar)
              run == Sub(Line, i, e)
          IN  /\ symbols' = Append(symbols,
                     Entry(IF run \in KEYWORDS THEN PALABRA_RESERVADA ELSE IDENTIFICADOR,
                           run, line_num))
              /\ i' = e
              /\ errors' = errors
              /\ line_num' = line_num
              /\ pc' = "scan"]_vars

\* 'iffy', 'int1' and '_if' are identifiers, the 'if' after them a keyword
C11_KeywordInsideLongerRun ==
    /\ pc = "return"
    /\ symbols = << Entry(IDENTIFICADOR, <<"i","f","f","y">>, 1),
                    Entry(IDENTIFICADOR, <<"i","n","t","1">>, 1),
                    Entry(IDENTIFICADOR, <<"_","i","f">>, 1),
                    Entry(PALABRA_RESERVADA, <<"i","f">>, 1) >>

\* the cursor is on a double-quote and e is the first double-quote after it
AtClosedString(e) ==
    /\ Scanning
    /\ At(Line, i) = "\""
    /\ e \in (i + 1)..(Len(Line) - 1)
    /\ At(Line, e) = "\""
    /\ \A k \in (i + 1)..(e - 1) : At(Line, k) # "\""

\* C12: at a double-quote followed by a double-quote on the line, the step
\* adds one STRING entry running from the first through the nearest second
\* one, backslashes being ordinary characters, and the cursor is then right
\* after the closing one.
C12_StringThroughNextQuote ==
    [][pc = "scan" =>
          \A e \in 0..(Len(Line) - 1) :
              AtClosedString(e) =>
                  /\ symbols' = Append(symbols, Entry(STRING_, Sub(Line, i, e + 1), line_num))
                  /\ i' = e + 1
                  /\ errors' = errors
                  /\ line_num' = line_num
                  /\ pc' = "scan"]_vars

\* the string ends at the double-quote behind the backslash, and the b after
\* it is scanned next
C12_BackslashDoesNotEscape ==
    \E k \in 1..(Len(symbols) - 1) :
        /\ symbols[k] = Entry(STRING_, <<"\"", "a", "\\", "\"">>, 1)
        /\ symbols[k + 1] = Entry(IDENTIFICADOR, <<"b">>, 1)

\* C13: at '//' the step adds no entry and no error and leaves the line: the
\* scan goes on at the start of the next line, or analyze is over.
C13_CommentDropsRestOfLine ==
    [][(Scanning /\ i + 1 < Len(Line) /\ At(Line, i) = "/" /\ At(Line, i + 1) = "/") =>
          /\ symbols' = symbols
          /\ errors' = errors
          /\ file' = file
          /\ lines' = lines
          /\ line_num' = line_num + 1
          /\ i' = 0
          /\ pc' = (IF line_num < Len(lines) THEN "scan" ELSE "return")]_vars

\* of 'a // b@"' and 'c//' only a and c are recorded, and no error
C13_OnlyTextBeforeComments ==
    /\ pc = "return"
    /\ lines = << <<"a"," ","/","/"," ","b","@","\"">>, <<"c","/","/">> >>
    /\ symbols = << Entry(IDENTIFICADOR, <<"a">>, 1), Entry(IDENTIFICADOR, <<"c">>, 2) >>
    /\ errors = <<>>

\* C14: at a digit whose run of digits and '.' holds at most one '.', the
\* step adds exactly one entry with the whole run as text, NUMERO_DECIMAL if
\* the run holds a '.', NUMERO_ENTERO if not, and records no error.
C14_WholeRunIntegerOrDecimal ==
    [][(Scanning /\ At(Line, i) \in Digits) =>
          LET e == RunEnd(Line, i, NumberChar)
              points == Cardinality({k \in i..(e - 1) : At(Line, k) = "."})
          IN  points <= 1 =>
                  /\ symbols' = Append(symbols,
                         Entry(IF points = 1 THEN NUMERO_DECIMAL ELSE NUMERO_ENTERO,
                               Sub(Line, i, e), line_num))
                  /\ i' = e
                  /\ errors' = errors
                  /\ line_num' = line_num
                  /\ pc' = "scan"]_vars

\* an integer, a decimal ending in its '.', and a decimal with digits after it
C14_IntegerAndDecimals ==
    /\ HasEntry(Entry(NUMERO_ENTERO, <<"7">>, 1))
    /\ HasEntry(Entry(NUMERO_DECIMAL, <<"1","2",".">>, 1))
    /\ HasEntry(Entry(NUMERO_DECIMAL, <<"0",".","5">>, 1))

HasThreeFields(line) == Len(Split(Strip(line), TAB)) = 3

\* the lines of the file behind the skipped ones that split into three fields
ThreeFieldLines(f) == SelectSeq(Slice(readlines(f), SkipLines), HasThreeFields)

\* the table syms was loaded from file f without an exception and holds the
\* three-field lines of f, one entry each, in the order of the file
LoadedLeniently(f, syms, p) ==
    LET rows == ThreeFieldLines(f)
    IN  /\ p # "crashed"
        /\ Len(syms) = Len(rows)
        /\ \A k \in 1..Len(rows) :
              /\ syms[k].type = Split(Strip(rows[k]), TAB)[1]
              /\ syms[k].value = Split(Strip(rows[k]), TAB)[2]

\* C15: a table constructed on a file, at the start or later, is loaded
\* without an exception and holds exactly the lines that split into three
\* fields, in file order; the other lines are dropped.
C15_LoadIsLenient ==
    /\ LoadedLeniently(file, symbols, pc)
    /\ [][NewLexicalAnalyzer => LoadedLeniently(file', symbols', pc')]_vars

\* C16: inside analyze every step leaves the entries as they are or appends
\* exactly one entry at the end, and a step that records an error leaves them
\* as they are.
C16_AppendOnlyAndErrorsApart ==
    [][pc = "scan" =>
          /\ \/ symbols' = symbols
             \/ /\ Len(symbols') = Len(symbols) + 1
                /\ SubSeq(symbols', 1, Len(symbols)) = symbols
          /\ errors' # errors => symbols' = symbols]_vars

\* the least position from which on the line reads v, or -1
FindFrom(line, v, from) ==
    LET hits == {p \in from..(Len(line) - Len(v)) : Sub(line, p, p + Len(v)) = v}
    IN  IF hits = {} THEN 0 - 1 ELSE CHOOSE p \in hits : \A q \in hits : p <= q

\* the texts of the entries es lie in the line from position from on, one
\* after the other without overlap
RECURSIVE LieInOrder(_, _, _)
LieInOrder(es, line, from) ==
    IF es = <<>> THEN TRUE
    ELSE LET p == FindFrom(line, Head(es).value, from)
         IN  /\ Head(es).value # <<>>
             /\ p >= 0
             /\ LieInOrder(Tail(es), line, p + Len(Head(es).value))

EntriesOfLine(n) == SelectSeq(symbols, LAMBDA e : e.line = n)

\* C17: during and after the scan the line numbers of the entries are
\* between 1 and the number of lines and never decrease along the sequence,
\* and the texts of the entries of one line lie in that line from left to
\* right without overlap.
C17_EntriesInScanOrder ==
    pc \in {"scan", "return"} =>
        /\ \A k \in 1..Len(symbols) :
              /\ symbols[k].line \in 1..Len(lines)
              /\ k > 1 => symbols[k - 1].line <= symbols[k].line
        /\ \A n \in 1..Len(lines) : LieInOrder(EntriesOfLine(n), lines[n], 0)

\* analyze is through with three lines: entries of the second line and,
\* after them in the table, of the third
C17_SeveralLinesSeveralEntries ==
    /\ pc = "return"
    /\ Len(lines) > 2
    /\ \E j, k \in 1..Len(symbols) : 1 < symbols[j].line /\ symbols[j].line < symbols[k].line
    /\ \E j, k \in 1..Len(symbols) :
          j < k /\ symbols[j].line = symbols[k].line /\ symbols[j].value # symbols[k].value

\* C18: every step of the scan moves the cursor forward on its line by at
\* least one character, or leaves the line for the start of the next one or
\* for the end of analyze; and analyze, once called, returns.
C18_ScanAdvancesAndEnds ==
    /\ [][pc = "scan" =>
             /\ lines' = lines
             /\ \/ /\ pc' = "scan"
                   /\ line_num' = line_num
                   /\ i' > i
                   /\ i' <= Len(Line)
                \/ /\ line_num' = line_num + 1
                   /\ i' = 0
                   /\ pc' = (IF line_num < Len(lines) THEN "scan" ELSE "return")]_vars
    /\ (pc = "split") ~> (pc = "idle")

\* the number branch has stopped at a second '.', behind the digit it began at
C18_StoppedAtSecondPoint ==
    /\ Scanning
    /\ i > 0
    /\ At(Line, i) = "."
    /\ errors # <<>>
    /\ errors[Len(errors)] = ErrMultiplePoints(line_num)

\* the first double-quote after the cursor closes a string that holds '//'
AtStringWithSlashes(e) ==
    /\ AtClosedString(e)
    /\ \E k \in (i + 1)..(e - 2) : At(Line, k) = "/" /\ At(Line, k + 1) = "/"

\* C19: at a double-quote whose string is closed on the line and holds '//',
\* the step adds the whole string as one STRING entry and the scan stays on
\* the line, right after the closing double-quote.
C19_SlashesInsideString ==
    [][pc = "scan" =>
          \A e \in 0..(Len(Line) - 1) :
              AtStringWithSlashes(e) =>
                  /\ symbols' = Append(symbols, Entry(STRING_, Sub(Line, i, e + 1), line_num))
                  /\ errors' = errors
                  /\ lines' = lines
                  /\ line_num' = line_num
                  /\ i' = e + 1
                  /\ pc' = "scan"]_vars

\* the string '"//"' and then the x behind it
C19_TokenAfterStringWithSlashes ==
    \E k \in 1..(Len(symbols) - 1) :
        /\ symbols[k] = Entry(STRING_, <<"\"", "/", "/", "\"">>, 1)
        /\ symbols[k + 1] = Entry(IDENTIFICADOR, <<"x">>, 1)

====
